---- MODULE Spec2Model ----
(***************************************************************************)
(* prepCV/auto_preprocessing.py: the PipelineManager registry, the         *)
(* GridSearch strategy and the interactive ImageSelector, as a state       *)
(* machine.  One action is one call of the public API, or one key event    *)
(* delivered to the selector's window, run up to the next point where the  *)
(* program blocks (plt.show(block=True)) or returns.                       *)
(***************************************************************************)
EXTENDS Integers, Sequences, FiniteSets, TLC

\* ------------------------------------------------------------- bounds
\* Most preprocessors the registry is let to hold.
MaxPipelines == 5
\* Most images handed to a direct select_best_image call.
MaxImages == 6
\* Largest batch_size handed to a direct select_best_image call.
MaxBatchSize == 4
\* Most batches one selection is let to present (batch_size = 1 never ends).
MaxRounds == 7
\* Most operations in a description handed to PipelineDescription.
MaxOperations == 2

\* ------------------------------------------------------------- values
\* select_best_image(images, batch_size=4) and ImageSelector._batch_size
DefaultBatchSize == 4

\* Python's None where an image index is expected.
NoneIndex == -1

\* Python's None where a Preprocessor is expected.
NonePreprocessor == [id |-> 0, description |-> <<>>]

\* ------------------------------------------------------------- sequences
Min(a, b) == IF a <= b THEN a ELSE b

\* s[:k] for k >= 0
SliceTo(s, k) == SubSeq(s, 1, Min(k, Len(s)))

\* s[k:] for k >= 0
SliceFrom(s, k) == SubSeq(s, Min(k, Len(s)) + 1, Len(s))

RECURSIVE ConcatAll(_)
ConcatAll(ss) == IF ss = <<>> THEN <<>> ELSE Head(ss) \o ConcatAll(Tail(ss))

\* list(range(n))
Range(n) == [i \in 1..n |-> i - 1]

\* ------------------------------------------------------------- descriptions
\* A dict is a sequence of entries in insertion order.  A parameter entry is
\* [name, list, values]: list = TRUE for a list of candidate values, FALSE for
\* a bare value (values then holds that one value).  A description is a
\* sequence of [function, params].

\* utils.parameter_combinations: every combination of one value per
\* parameter, in product order (last parameter fastest), each parameter of a
\* combination a bare value; a bare value counts as a one-element list.
RECURSIVE parameter_combinations(_)
parameter_combinations(parameter_dict) ==
    IF parameter_dict = <<>> THEN << <<>> >>
    ELSE LET p    == Head(parameter_dict)
             rest == parameter_combinations(Tail(parameter_dict))
         IN  ConcatAll([i \in 1..Len(p.values) |->
                 [j \in 1..Len(rest) |->
                     <<[name |-> p.name, list |-> FALSE, values |-> <<p.values[i]>>]>>
                         \o rest[j]]])

\* A product whose first list varies fastest.
RECURSIVE product_first_fastest(_)
product_first_fastest(lists) ==
    IF lists = <<>> THEN << <<>> >>
    ELSE LET rest == product_first_fastest(Tail(lists))
         IN  ConcatAll([j \in 1..Len(rest) |->
                 [i \in 1..Len(Head(lists)) |-> <<Head(lists)[i]>> \o rest[j]]])

\* itertools.product(*lists): tuples in lexicographic order, last list fastest.
RECURSIVE product(_)
product(lists) ==
    IF lists = <<>> THEN << <<>> >>
    ELSE LET rest == product(Tail(lists))
         IN  ConcatAll([i \in 1..Len(Head(lists)) |->
                 [j \in 1..Len(rest) |-> <<Head(lists)[i]>> \o rest[j]]])

\* dict.update with a one-entry dict: the value of an existing key is
\* replaced in place, a new key is appended.
update(d, e) ==
    IF \E i \in 1..Len(d) : d[i].function = e.function
    THEN [i \in 1..Len(d) |-> IF d[i].function = e.function THEN e ELSE d[i]]
    ELSE Append(d, e)

RECURSIVE update_all(_, _)
update_all(d, es) ==
    IF es = <<>> THEN d ELSE update_all(update(d, Head(es)), Tail(es))

\* PipelineManager._resolve_complex_descriptions
resolve_complex_descriptions(pipeline_description) ==
    LET function_param_combinations ==
            [k \in 1..Len(pipeline_description) |->
                LET combos == parameter_combinations(pipeline_description[k].params)
                IN  [c \in 1..Len(combos) |->
                        [function |-> pipeline_description[k].function,
                         params   |-> combos[c]]]]
        combinations == product(function_param_combinations)
    IN  [n \in 1..Len(combinations) |-> update_all(<<>>, combinations[n])]

\* The descriptions handed to add_pipeline.
BlockSize(vs, isList) == [name |-> "blockSize", list |-> isList, values |-> vs]

GrayOnly == << [function |-> "grayscale", params |-> <<>>] >>

GrayThreshold ==
    << [function |-> "grayscale", params |-> <<>>],
       [function |-> "threshold", params |-> <<BlockSize(<<3, 5>>, TRUE)>>] >>

ThresholdGrid ==
    << [function |-> "threshold",
        params   |-> <<BlockSize(<<3, 5>>, TRUE),
                       [name |-> "C", list |-> TRUE, values |-> <<1, 2>>]>>] >>

NoCandidateValue ==
    << [function |-> "threshold", params |-> <<BlockSize(<<>>, TRUE)>>] >>

Descriptions == {GrayOnly, GrayThreshold, ThresholdGrid, NoCandidateValue}

\* ------------------------------------------------------------- validation
\* The keyword parameters each operation accepts.  "flip" takes the image
\* and nothing else; "dilate" stands for a native operation whose signature
\* cannot be read.
AcceptedParameters(function) ==
    CASE function = "grayscale" -> {"code"}
      [] function = "threshold" -> {"blockSize", "C"}
      [] function = "flip"      -> {}
      [] function = "dilate"    -> {"kernel"}

Introspectable(function) == function # "dilate"

\* utils.get_cv2_function_params: the accepted parameter names, or an empty
\* result if the operation cannot be introspected.
get_cv2_function_params(function) ==
    IF Introspectable(function) THEN AcceptedParameters(function) ELSE {}

\* _validate: `if not valid_params`, the operation is skipped with a warning.
skips_validation(valid_params) == valid_params = {}

\* PipelineDescription._validate: the exception it raises, "" for none.
validate(description_dict) ==
    IF \E k \in 1..Len(description_dict) :
           LET valid_params == get_cv2_function_params(description_dict[k].function)
               param_dict   == description_dict[k].params
           IN  /\ ~skips_validation(valid_params)
               /\ \E i \in 1..Len(param_dict) : param_dict[i].name \notin valid_params
    THEN "ValueError" ELSE ""

\* The dicts handed to PipelineDescription(...): up to MaxOperations
\* operations, each with one of these parameter dicts.
Parameter(name, vs, isList) == [name |-> name, list |-> isList, values |-> vs]

ParameterDicts ==
    {<<>>}
    \cup {<<BlockSize(vs, TRUE)>> : vs \in {<<>>, <<3>>, <<3, 5>>}}
    \cup {<<BlockSize(<<3>>, FALSE)>>}
    \cup {<<BlockSize(vs, TRUE), Parameter("C", ws, TRUE)>> :
              vs \in {<<>>, <<3>>, <<3, 5>>}, ws \in {<<1>>, <<1, 2>>}}
    \cup {<<BlockSize(<<3>>, FALSE), Parameter("C", ws, TRUE)>> : ws \in {<<1>>, <<1, 2>>}}
    \cup {<<Parameter("gamma", <<2>>, FALSE)>>,
          <<BlockSize(<<3, 5>>, TRUE), Parameter("gamma", <<1, 2>>, TRUE)>>}

Operations == {"threshold", "flip", "dilate"}

\* A dict has each key once.
DescriptionDicts ==
    UNION {{d \in [1..k -> [function : Operations, params : ParameterDicts]] :
               \A i, j \in 1..k : i # j => d[i].function # d[j].function} :
           k \in 0..MaxOperations}

\* ------------------------------------------------------------- state
VARIABLES
    pipelines,              \* PipelineManager.pipelines
    newly_added,            \* PipelineManager.newly_added
    best_preprocessor,      \* PipelineManager.best_preprocessor
    images,                 \* len(ImageSelector._images)
    image_indexes,          \* ImageSelector._image_indexes
    current_batch_indexes,  \* ImageSelector._current_batch_indexes
    best_image_index,       \* ImageSelector._best_image_index
    batch_size,             \* ImageSelector._batch_size
    pc,                     \* "idle", or "shown": blocked in plt.show on a batch
    caller,                 \* who waits for select_best_image: "search", "direct", "" for nobody
    cold_start,             \* GridSearch.cold_start of the search called last
    failing,                \* np_image: the competitor positions whose process raises on it
    last_call,              \* the API call made last
    raised,                 \* the exception that call ended with, "" for none
    returned_preprocessor,  \* what get_best_preprocessor returned last
    invalidated,            \* the cached winner that call dropped, None if it dropped none
    returned_index,         \* what select_best_image returned last
    rounds,                 \* batches presented by the selection made last
    cancelled,              \* whether a batch of that selection was closed with "c"
    last_event,             \* what the key event handled last did
    description,            \* the dict handed to PipelineDescription(...)
    step,                   \* "given", "constructed", "resolved", or the exception raised
    resolved_pipelines      \* what _resolve_complex_descriptions returned for it

registry == <<pipelines, newly_added, best_preprocessor>>

selector == <<images, image_indexes, current_batch_indexes, best_image_index, batch_size>>

observed == <<last_call, raised, returned_preprocessor, invalidated, returned_index,
              rounds, cancelled, last_event, failing>>

described == <<description, step, resolved_pipelines>>

vars == <<registry, selector, pc, caller, cold_start, observed, described>>

\* The class attributes as the module's import leaves them.
ClassAttributes ==
    /\ pipelines = <<>>
    /\ newly_added = <<>>
    /\ best_preprocessor = NonePreprocessor
    /\ images = 0
    /\ image_indexes = <<>>
    /\ current_batch_indexes = <<>>
    /\ best_image_index = NoneIndex
    /\ batch_size = DefaultBatchSize
    /\ pc = "idle"
    /\ caller = ""
    /\ cold_start = FALSE
    /\ failing = {}
    /\ last_call = ""
    /\ raised = ""
    /\ returned_preprocessor = NonePreprocessor
    /\ invalidated = NonePreprocessor
    /\ returned_index = NoneIndex
    /\ rounds = 0
    /\ cancelled = FALSE
    /\ last_event = ""

Init ==
    /\ ClassAttributes
    /\ description = <<>>
    /\ step = "given"
    /\ resolved_pipelines = <<>>

\* A dict is at hand to build a PipelineDescription from.
DescriptionInit ==
    /\ ClassAttributes
    /\ description \in DescriptionDicts
    /\ step = "given"
    /\ resolved_pipelines = <<>>

\* A call that raises nothing, returns nothing and shows nothing leaves
\* this to observe.
NothingObserved ==
    /\ raised' = ""
    /\ cold_start' = FALSE
    /\ failing' = {}
    /\ returned_preprocessor' = NonePreprocessor
    /\ invalidated' = NonePreprocessor
    /\ returned_index' = NoneIndex
    /\ rounds' = 0
    /\ cancelled' = FALSE
    /\ last_event' = ""

\* ------------------------------------------------------------- PipelineDescription
\* PipelineDescription(description): __post_init__ validates the dict.
PipelineDescription ==
    /\ step = "given"
    /\ step' = IF validate(description) = "" THEN "constructed" ELSE validate(description)
    /\ UNCHANGED <<description, resolved_pipelines>>
    /\ UNCHANGED <<registry, selector, pc, caller, cold_start, observed>>

\* _resolve_complex_descriptions(pipeline_description), each resolved dict
\* wrapped in a PipelineDescription and so validated again.
resolve_complex_descriptions_call ==
    /\ step = "constructed"
    /\ LET result == resolve_complex_descriptions(description)
       IN  IF \A n \in 1..Len(result) : validate(result[n]) = ""
           THEN resolved_pipelines' = result /\ step' = "resolved"
           ELSE resolved_pipelines' = resolved_pipelines /\ step' = "ValueError"
    /\ UNCHANGED description
    /\ UNCHANGED <<registry, selector, pc, caller, cold_start, observed>>

\* ------------------------------------------------------------- PipelineManager
\* Preprocessor(resolved_description), one new object per call: the n-th
\* resolved description ever registered is wrapped twice, as object 2n-1 for
\* pipelines and as object 2n for newly_added.
Preprocessor(resolved_description, id) ==
    [id |-> id, description |-> resolved_description]

\* The new entries assigned to the list: the earlier entries are lost.
append_replacing(list, new) == new

\* The new entries put in front of the earlier ones.
append_in_front(list, new) == new \o list

\* list.append(entry) for each of the new entries, in order
append(list, new) == list \o new

\* PipelineManager.add_pipeline
add_pipeline(pipeline_description) ==
    /\ pc = "idle"
    /\ LET resolved == resolve_complex_descriptions(pipeline_description)
           n        == Len(pipelines)
       IN  /\ n + Len(resolved) <= MaxPipelines
           /\ pipelines' = append(pipelines,
                  [i \in 1..Len(resolved) |-> Preprocessor(resolved[i], 2 * (n + i) - 1)])
           /\ newly_added' = append(newly_added,
                  [i \in 1..Len(resolved) |-> Preprocessor(resolved[i], 2 * (n + i))])
    /\ last_call' = "add_pipeline"
    /\ NothingObserved
    /\ UNCHANGED <<best_preprocessor, selector, pc, caller>>

\* get_best_preprocessor without its `if cls.newly_added` invalidation.
best_after_get_stale(newly, best) == best

\* get_best_preprocessor: the value it leaves in best_preprocessor and returns.
best_after_get(newly, best) == IF newly # <<>> THEN NonePreprocessor ELSE best

\* get_best_preprocessor emptying newly_added once it has warned about it.
get_best_preprocessor_acknowledging ==
    /\ pc = "idle"
    /\ best_preprocessor' = best_after_get(newly_added, best_preprocessor)
    /\ newly_added' = <<>>
    /\ returned_preprocessor' = best_preprocessor'
    /\ invalidated' = IF best_preprocessor' = best_preprocessor
                      THEN NonePreprocessor ELSE best_preprocessor
    /\ last_call' = "get_best_preprocessor"
    /\ raised' = ""
    /\ cold_start' = FALSE
    /\ failing' = {}
    /\ returned_index' = NoneIndex
    /\ rounds' = 0
    /\ cancelled' = FALSE
    /\ last_event' = ""
    /\ UNCHANGED <<pipelines, selector, pc, caller>>

\* PipelineManager.get_best_preprocessor
get_best_preprocessor ==
    /\ pc = "idle"
    /\ best_preprocessor' = best_after_get(newly_added, best_preprocessor)
    /\ returned_preprocessor' = best_preprocessor'
    /\ invalidated' = IF best_preprocessor' = best_preprocessor
                      THEN NonePreprocessor ELSE best_preprocessor
    /\ last_call' = "get_best_preprocessor"
    /\ raised' = ""
    /\ cold_start' = FALSE
    /\ failing' = {}
    /\ returned_index' = NoneIndex
    /\ rounds' = 0
    /\ cancelled' = FALSE
    /\ last_event' = ""
    /\ UNCHANGED <<pipelines, newly_added, selector, pc, caller>>

\* ------------------------------------------------------------- ImageSelector
\* _show_next_batch keeping a slot for a running best in the first batch too.
draw_count_first_short(best, size) == size - 1

\* _show_next_batch: how many indexes the next batch takes from the pool.
draw_count(best, size) == IF best # NoneIndex THEN size - 1 ELSE size

\* _show_next_batch putting the running best after the indexes it draws.
next_batch_best_last(best, indexes, size) ==
    IF best # NoneIndex
    THEN SliceTo(indexes, draw_count(best, size)) \o <<best>>
    ELSE SliceTo(indexes, draw_count(best, size))

\* _show_next_batch: the batch it displays.
next_batch(best, indexes, size) ==
    IF best # NoneIndex
    THEN <<best>> \o SliceTo(indexes, draw_count(best, size))
    ELSE SliceTo(indexes, draw_count(best, size))

\* The loop with _show_next_batch dropping batch_size indexes from the pool
\* whether or not the running best took a slot of the batch.
selection_loop_drops_slot(best, indexes, batch, size) ==
    IF Len(indexes) > 0
    THEN [done    |-> FALSE,
          best    |-> best,
          indexes |-> SliceFrom(indexes, size),
          batch   |-> next_batch(best, indexes, size)]
    ELSE [done |-> TRUE, best |-> best, indexes |-> indexes, batch |-> batch]

\* The `while len(cls._image_indexes) > 0` loop of select_best_image, run
\* from its test to the next plt.show or to the return: the selector's
\* fields then, and whether it returned (done) or shows a batch.
selection_loop(best, indexes, batch, size) ==
    IF Len(indexes) > 0
    THEN [done    |-> FALSE,
          best    |-> best,
          indexes |-> SliceFrom(indexes, draw_count(best, size)),
          batch   |-> next_batch(best, indexes, size)]
    ELSE [done |-> TRUE, best |-> best, indexes |-> indexes, batch |-> batch]

\* select_best_image without its `elif len(cls._images) == 1` return.
select_best_image_no_single(n, batch, size) ==
    IF n = 0
    THEN [done |-> TRUE, best |-> NoneIndex, indexes |-> Range(n), batch |-> batch]
    ELSE selection_loop(NoneIndex, Range(n), batch, size)

\* select_best_image from its first line to the first plt.show or the return.
select_best_image(n, batch, size) ==
    IF n = 0
    THEN [done |-> TRUE, best |-> NoneIndex, indexes |-> Range(n), batch |-> batch]
    ELSE IF n = 1
    THEN [done |-> TRUE, best |-> 0, indexes |-> Range(n), batch |-> batch]
    ELSE selection_loop(NoneIndex, Range(n), batch, size)

\* _on_key: the keys that select, and int(event.key).
DigitKeys == <<"1", "2", "3", "4", "5", "6", "7", "8", "9">>

int(key) == CHOOSE i \in 1..Len(DigitKeys) : DigitKeys[i] = key

Keys == {DigitKeys[i] : i \in 1..Len(DigitKeys)} \cup {"c"}

\* ------------------------------------------------------------- GridSearch
\* GridSearch.search ignoring cold_start.
competitors_all(cold) == pipelines

\* GridSearch.search: the candidate pool.
competitors(cold) == IF cold THEN pipelines ELSE newly_added

\* `assert best_image_index`: the truth value of an index or None.
truthy(index) == index # NoneIndex /\ index # 0

\* GridSearch.search letting a None index through (`assert index != 0`).
search_raises_not_none(index) == IF index = 0 THEN "AssertionError" ELSE ""

\* GridSearch.search after select_best_image returned index: the exception
\* it ends with, "" when it returns competitors[index].  (Asserts are on, as
\* they are unless Python runs with -O.)
search_raises(index) == IF ~truthy(index) THEN "AssertionError" ELSE ""

\* competitors[best_image_index]
winner(index, pool) ==
    IF index + 1 \in DOMAIN pool THEN pool[index + 1] ELSE NonePreprocessor

\* select_best_image returns index to its caller, which runs to its end:
\* GridSearch.search and then run_search, or the direct caller.
returns(who, cold, index) ==
    /\ pc' = "idle"
    /\ caller' = ""
    /\ returned_index' = index
    /\ raised' = IF who = "search" THEN search_raises(index) ELSE ""
    /\ IF who = "search" /\ raised' = ""
       THEN /\ best_preprocessor' = winner(index, competitors(cold))
            /\ newly_added' = <<>>
       ELSE UNCHANGED <<best_preprocessor, newly_added>>
    /\ UNCHANGED pipelines

\* The selector's fields after a step of the selection, and the caller's end
\* when the selection returned.
selection_step(r, who, cold, shown) ==
    /\ image_indexes' = r.indexes
    /\ current_batch_indexes' = r.batch
    /\ best_image_index' = r.best
    /\ IF r.done
       THEN /\ rounds' = shown
            /\ returns(who, cold, r.best)
       ELSE /\ shown < MaxRounds
            /\ rounds' = shown + 1
            /\ pc' = "shown"
            /\ caller' = who
            /\ raised' = ""
            /\ returned_index' = NoneIndex
            /\ UNCHANGED registry

\* A search's images: none of them fails, one of them, or every one.
FailureSets(n) == {{}} \cup {{i} : i \in 1..n} \cup {1..n}

\* PipelineManager.run_search up to the first batch shown, or to its end.
\* fails: the positions of the pool whose Preprocessor.process raises on
\* np_image.  An OcrEngine maps the images one to one and is left out.
run_search(search_strategy, cold, fails) ==
    /\ pc = "idle"
    /\ last_call' = "run_search"
    /\ returned_preprocessor' = NonePreprocessor
    /\ invalidated' = NonePreprocessor
    /\ cancelled' = FALSE
    /\ last_event' = ""
    /\ IF search_strategy # "GridSearch"
       THEN /\ raised' = "UnboundLocalError"
            /\ cold_start' = FALSE
            /\ failing' = {}
            /\ returned_index' = NoneIndex
            /\ rounds' = 0
            /\ UNCHANGED <<registry, selector, pc, caller>>
       ELSE /\ cold_start' = cold
            /\ failing' = fails
            /\ IF fails # {}
               THEN /\ raised' = "cv2.error"
                    /\ returned_index' = NoneIndex
                    /\ rounds' = 0
                    /\ UNCHANGED <<registry, selector, pc, caller>>
               ELSE /\ images' = Len(competitors(cold))
                    /\ batch_size' = DefaultBatchSize
                    /\ selection_step(
                           select_best_image(images', current_batch_indexes, batch_size'),
                           "search", cold, 0)

\* A direct call of ImageSelector.select_best_image on n images.
select_best_image_call(n, size) ==
    /\ pc = "idle"
    /\ last_call' = "select_best_image"
    /\ returned_preprocessor' = NonePreprocessor
    /\ invalidated' = NonePreprocessor
    /\ cold_start' = FALSE
    /\ failing' = {}
    /\ cancelled' = FALSE
    /\ last_event' = ""
    /\ images' = n
    /\ batch_size' = size
    /\ selection_step(select_best_image(n, current_batch_indexes, size),
                      "direct", FALSE, 0)

\* _on_key keeping the position pressed, not the index shown there.
selected_position(batch, key) == int(key) - 1

\* _on_key: the index a digit key selects from the batch shown.
selected(batch, key) == batch[int(key)]

\* ImageSelector._on_key on the batch shown, and what follows the plot's
\* closing.  An index past the batch raises IndexError inside the callback,
\* before the assignment and before plt.close: the GUI event loop prints it
\* and the window stays open on the same batch.
on_key(key) ==
    /\ pc = "shown"
    /\ UNCHANGED <<images, batch_size, cold_start, failing, last_call,
                   returned_preprocessor, invalidated>>
    /\ IF key # "c" /\ int(key) - 1 >= Len(current_batch_indexes)
       THEN /\ last_event' = "IndexError"
            /\ UNCHANGED <<registry, image_indexes, current_batch_indexes,
                           best_image_index, pc, caller, raised, returned_index,
                           rounds, cancelled>>
       ELSE /\ last_event' = IF key = "c" THEN "cancelled" ELSE "selected"
            /\ cancelled' = (cancelled \/ key = "c")
            /\ selection_step(
                   selection_loop(
                       IF key = "c" THEN best_image_index
                       ELSE selected(current_batch_indexes, key),
                       image_indexes, current_batch_indexes, batch_size),
                   caller, cold_start, rounds)

\* ------------------------------------------------------------- specifications
\* The registry and its searches.
Next ==
    \/ (\E d \in Descriptions : add_pipeline(d)) /\ UNCHANGED described
    \/ get_best_preprocessor /\ UNCHANGED described
    \/ /\ \E cold \in BOOLEAN :
              \E fails \in FailureSets(Len(competitors(cold))) :
                  run_search("GridSearch", cold, fails)
       /\ UNCHANGED described
    \/ run_search("RandomSearch", FALSE, {}) /\ UNCHANGED described
    \/ (\E key \in Keys : on_key(key)) /\ UNCHANGED described

Spec == Init /\ [][Next]_vars

\* The selector called on its own.
SelectorNext ==
    \/ /\ \E n \in 0..MaxImages, size \in 1..MaxBatchSize : select_best_image_call(n, size)
       /\ UNCHANGED described
    \/ (\E key \in Keys : on_key(key)) /\ UNCHANGED described

SelectorSpec == Init /\ [][SelectorNext]_vars

\* A description built from a dict and resolved.
DescriptionNext ==
    \/ PipelineDescription
    \/ resolve_complex_descriptions_call

DescriptionSpec == DescriptionInit /\ [][DescriptionNext]_vars

\* ------------------------------------------------------------- properties
\* The entries of a sequence.
Elements(s) == {s[i] : i \in 1..Len(s)}

\* The descriptions the preprocessors of a list wrap, in order.
DescriptionsOf(s) == [i \in 1..Len(s) |-> s[i].description]

\* The last call was a run_search that returned.
SearchCompleted == pc = "idle" /\ last_call = "run_search" /\ raised = ""

\* This step ends a run_search call, at once or after its last batch.
SearchEnds == pc' = "idle" /\ last_call' = "run_search"

\* The pool a search with this cold_start is to draw from.
Pool(cold) == IF cold THEN pipelines ELSE newly_added

\* ceil(a / b) for b > 0
CeilDiv(a, b) == (a + b - 1) \div b

\* This step is get_best_preprocessor called right after add_pipeline.
GetBestAfterRegistration ==
    pc = "idle" /\ last_call = "add_pipeline" /\ last_call' = "get_best_preprocessor"

\* This step delivers the key "c" to the batch shown.
CancelStep == pc = "shown" /\ last_event' = "cancelled"

\* C1: in every reachable state, best_preprocessor is None whenever
\* newly_added is not empty: a winner chosen before the latest registration
\* is never held as the current best.
C1_NoCachedBestWhileNewlyAdded ==
    newly_added # <<>> => best_preprocessor = NonePreprocessor

\* C2 as claimed: with a winner cached, calling get_best_preprocessor right
\* after registering one more description returns None and clears the cache.
C2_GetBestAfterAnyRegistration ==
    [][GetBestAfterRegistration /\ best_preprocessor # NonePreprocessor
           => /\ returned_preprocessor' = NonePreprocessor
              /\ best_preprocessor' = NonePreprocessor]_vars

\* C2 as amended: with a winner cached, calling get_best_preprocessor right
\* after registering a description that resolves to at least one
\* preprocessor returns None, clears the cache and leaves newly_added as that
\* registration left it; a registration right after a completed search leaves
\* in newly_added exactly the entries it added to pipelines; and
\* get_best_preprocessor never returns a preprocessor while newly_added is
\* not empty.
C2_GetBestAfterRegistration ==
    /\ [][GetBestAfterRegistration /\ newly_added # <<>>
              => /\ returned_preprocessor' = NonePreprocessor
                 /\ best_preprocessor' = NonePreprocessor
                 /\ newly_added' = newly_added]_vars
    /\ [][SearchCompleted /\ last_call' = "add_pipeline"
              => DescriptionsOf(newly_added') =
                     SliceFrom(DescriptionsOf(pipelines'), Len(pipelines))]_vars
    /\ [](last_call = "get_best_preprocessor" /\ newly_added # <<>>
              => returned_preprocessor = NonePreprocessor)

\* C2's case: get_best_preprocessor has dropped a cached winner because of
\* entries registered after the search that chose it.
C2_Witness ==
    /\ last_call = "get_best_preprocessor"
    /\ invalidated # NonePreprocessor
    /\ newly_added # <<>>
    /\ returned_preprocessor = NonePreprocessor
    /\ best_preprocessor = NonePreprocessor

\* C3: a run_search some round of which was closed with "c" ends with no
\* winner and with pipelines, newly_added and best_preprocessor as they were
\* before the call; newly_added is emptied only by a search no round of
\* which was cancelled.
C3_CancelLeavesRegistry ==
    [][/\ (SearchEnds /\ cancelled') => (raised' # "" /\ UNCHANGED registry)
       /\ (newly_added # <<>> /\ newly_added' = <<>>) => ~cancelled']_vars

\* C4: whenever the selector returns a position p to GridSearch.search (p = 0
\* and a pool of one included), the search returns the preprocessor at
\* position p of the pool and run_search stores it as best_preprocessor.
C4_WinnerIsSelectedPosition ==
    [][SearchEnds /\ returned_index' # NoneIndex
           => /\ raised' = ""
              /\ best_preprocessor' = Pool(cold_start')[returned_index' + 1]]_vars

\* C5: a run_search that returns leaves in best_preprocessor an entry of the
\* pool its cold_start selects, as the pool stood at the call, and leaves
\* newly_added empty; with cold_start false the winner is an entry
\* registered after the previous search that returned.
C5_WinnerFromSelectedPool ==
    [][SearchEnds /\ raised' = ""
           => /\ best_preprocessor' \in Elements(Pool(cold_start'))
              /\ newly_added' = <<>>
              /\ ~cold_start' =>
                     best_preprocessor'.id > 2 * (Len(pipelines) - Len(newly_added))]_vars

\* C5's case: a search with cold_start false has returned a winner from a
\* pool smaller than the registry.
C5_Witness ==
    /\ SearchCompleted
    /\ ~cold_start
    /\ images >= 2
    /\ images < Len(pipelines)
    /\ best_preprocessor # NonePreprocessor

\* C6: a run_search whose pool is empty ends with an exception and leaves
\* pipelines, newly_added and best_preprocessor as they were.
C6_EmptyPoolSearchFails ==
    [][pc = "idle" /\ last_call' = "run_search" /\ Pool(cold_start') = <<>>
           => pc' = "idle" /\ raised' # "" /\ UNCHANGED registry]_vars

\* C6's case: a search with cold_start false, called with a winner cached
\* and nothing registered since, has failed on its empty pool.
C6_Witness ==
    /\ pc = "idle"
    /\ last_call = "run_search"
    /\ ~cold_start
    /\ failing = {}
    /\ images = 0
    /\ raised = "AssertionError"
    /\ returned_index = NoneIndex
    /\ newly_added = <<>>
    /\ best_preprocessor # NonePreprocessor

\* C7: select_best_image returns None for no image and 0 for one image, and
\* shows no batch in either case.
C7_NoBatchForZeroOrOne ==
    last_call = "select_best_image" /\ images <= 1
        => /\ pc = "idle"
           /\ rounds = 0
           /\ returned_index = IF images = 0 THEN NoneIndex ELSE 0

\* C7's case: select_best_image has returned on one image.
C7_Witness ==
    /\ last_call = "select_best_image"
    /\ images = 1
    /\ pc = "idle"
    /\ returned_index = 0
    /\ rounds = 0

\* C8: for more than one image and batch_size >= 2, whatever the keys, the
\* batches shown number at most ceil((N - 1) / (batch_size - 1)).
C8_RoundsBound ==
    images > 1 /\ batch_size >= 2 => rounds <= CeilDiv(images - 1, batch_size - 1)

\* C8's case: a selection of several rounds, one of them cancelled, has shown
\* as many batches as the bound allows.
C8_Witness ==
    /\ pc = "idle"
    /\ last_call = "select_best_image"
    /\ batch_size >= 2
    /\ images > batch_size
    /\ cancelled
    /\ rounds >= 2
    /\ rounds = CeilDiv(images - 1, batch_size - 1)

\* C9: a "c" on any batch ends the selection at once: no further batch is
\* shown and select_best_image returns None, whatever the running best.
C9_CancelEndsSelection ==
    [][CancelStep
           => pc' = "idle" /\ rounds' = rounds /\ returned_index' = NoneIndex]_vars

\* C10: when the process of some candidates raises and that of another does
\* not, the search does not abort: the selector is handed the outputs of the
\* remaining candidates.
C10_FailedCandidateExcluded ==
    [][(/\ pc = "idle"
        /\ last_call' = "run_search"
        /\ failing' # {}
        /\ failing' # 1..Len(Pool(cold_start')))
           => /\ raised' # "cv2.error"
              /\ images' = Len(Pool(cold_start')) - Cardinality(failing')]_vars

\* This step delivers a digit key past the end of the batch shown.
OutOfRangeStep == pc = "shown" /\ last_event' = "IndexError"

\* C11: a digit key greater than the size of the batch shown ends the
\* current search with an error: the running best is not changed, no winner
\* is produced, and pipelines, newly_added and best_preprocessor are
\* unchanged.
C11_OutOfRangeKeyEndsSearch ==
    [][(OutOfRangeStep /\ caller = "search")
           => /\ pc' = "idle"
              /\ raised' # ""
              /\ best_image_index' = best_image_index
              /\ UNCHANGED registry]_vars

\* This step is a call of add_pipeline.
RegistrationStep == pc = "idle" /\ last_call' = "add_pipeline"

\* C12: pipelines is append-only. add_pipeline(d) puts the preprocessors of
\* the resolved descriptions of d, in resolve order, after the earlier
\* contents of both pipelines and newly_added and leaves best_preprocessor
\* alone; no other step adds to, removes from or reorders pipelines.
C12_PipelinesAppendOnly ==
    [][IF RegistrationStep
       THEN \E d \in Descriptions :
                LET resolved == resolve_complex_descriptions(d)
                    p == Len(pipelines)
                    n == Len(newly_added)
                IN  /\ Len(pipelines') = p + Len(resolved)
                    /\ Len(newly_added') = n + Len(resolved)
                    /\ SubSeq(pipelines', 1, p) = pipelines
                    /\ SubSeq(newly_added', 1, n) = newly_added
                    /\ SubSeq(DescriptionsOf(pipelines'), p + 1, p + Len(resolved)) = resolved
                    /\ SubSeq(DescriptionsOf(newly_added'), n + 1, n + Len(resolved)) = resolved
                    /\ best_preprocessor' = best_preprocessor
       ELSE pipelines' = pipelines]_vars

\* C12's case: a description resolving to several preprocessors has been
\* registered after a search that cached a winner and after an earlier
\* registration not yet searched.
C12_Witness ==
    /\ last_call = "add_pipeline"
    /\ best_preprocessor # NonePreprocessor
    /\ Len(newly_added) >= 3
    /\ Len(pipelines) > Len(newly_added)
    /\ newly_added[1].description # newly_added[Len(newly_added)].description

\* The product of the numbers ns[from], ..., ns[Len(ns)]; 1 for none.
RECURSIVE ProductFrom(_, _)
ProductFrom(ns, from) ==
    IF from > Len(ns) THEN 1 ELSE ns[from] * ProductFrom(ns, from + 1)

\* C13: for a description of k >= 0 operations whose parameter dicts expand
\* to n1, ..., nk combinations, _resolve_complex_descriptions returns exactly
\* n1 * ... * nk descriptions (one empty description for k = 0); each holds
\* every operation once, in input order, with one combination of that
\* operation; and the results come in lexicographic product order, the last
\* operation's combination varying fastest.
C13_ResolveIsOrderedProduct ==
    step = "resolved" =>
        LET k == Len(description)
            expansion == [j \in 1..k |-> parameter_combinations(description[j].params)]
            counts == [j \in 1..k |-> Len(expansion[j])]
        IN  /\ Len(resolved_pipelines) = ProductFrom(counts, 1)
            /\ \A m \in 1..Len(resolved_pipelines) :
                   /\ Len(resolved_pipelines[m]) = k
                   /\ \A j \in 1..k :
                          /\ resolved_pipelines[m][j].function = description[j].function
                          /\ resolved_pipelines[m][j].params =
                                 expansion[j][(((m - 1) \div ProductFrom(counts, j + 1))
                                                   % counts[j]) + 1]

\* C13's case: a description of two operations, each with several
\* combinations, has been resolved.
C13_Witness ==
    /\ step = "resolved"
    /\ Len(description) = 2
    /\ Len(parameter_combinations(description[1].params)) >= 2
    /\ Len(parameter_combinations(description[2].params)) = 4
    /\ Len(resolved_pipelines) >= 8

\* C14: constructing a PipelineDescription fails with a validation error
\* exactly when some operation whose parameters can be introspected is given
\* a parameter name outside its accepted set, whatever that set is, the
\* empty set included; validation is skipped only for an operation whose
\* parameters cannot be introspected.
C14_InvalidNameRejected ==
    step \in {"constructed", "ValueError"} =>
        (step = "ValueError" <=>
            \E k \in 1..Len(description) :
                /\ Introspectable(description[k].function)
                /\ \E i \in 1..Len(description[k].params) :
                       description[k].params[i].name
                           \notin AcceptedParameters(description[k].function))

\* This step composes and shows a batch: the first of a selection, or the
\* one that follows an answered batch.
NewBatchStep == pc' = "shown" /\ (pc = "idle" \/ rounds' = rounds + 1)

\* The pool that batch is drawn from.
PoolBefore == IF pc = "idle" THEN Range(images') ELSE image_indexes

\* C15: every batch has at most batch_size entries: the running best first,
\* if there is one, followed by the next batch_size - 1 indexes from the
\* front of the pool, else the next batch_size indexes from the front of the
\* pool; the indexes drawn are removed from the pool and the rest of the pool
\* keeps its order.
C15_BatchComposition ==
    [][NewBatchStep =>
           LET carried == best_image_index' # NoneIndex
               room    == IF carried THEN batch_size' - 1 ELSE batch_size'
               drawn   == IF Len(PoolBefore) < room THEN Len(PoolBefore) ELSE room
           IN  /\ Len(current_batch_indexes') <= batch_size'
               /\ current_batch_indexes' =
                      (IF carried THEN <<best_image_index'>> ELSE <<>>)
                          \o SubSeq(PoolBefore, 1, drawn)
               /\ image_indexes' = SubSeq(PoolBefore, drawn + 1, Len(PoolBefore))]_vars

\* C15's case: a later batch is shown, full, with the running best first and
\* indexes still left in the pool.
C15_Witness ==
    /\ pc = "shown"
    /\ rounds >= 2
    /\ batch_size >= 3
    /\ best_image_index # NoneIndex
    /\ current_batch_indexes[1] = best_image_index
    /\ Len(current_batch_indexes) = batch_size
    /\ image_indexes # <<>>

\* C16: when no batch was cancelled, the result of a select_best_image call
\* on more than one image is the index selected in the final round by a
\* valid position: a member of the final batch and an index of an image.
C16_ResultIsFinalSelection ==
    [][\A key \in Keys \ {"c"} :
           (/\ on_key(key)
            /\ caller = "direct"
            /\ images > 1
            /\ pc' = "idle"
            /\ ~cancelled')
               => /\ int(key) <= Len(current_batch_indexes)
                  /\ raised' = ""
                  /\ returned_index' = current_batch_indexes[int(key)]
                  /\ returned_index' \in 0..(images - 1)]_vars

\* C16's case: a selection of several rounds, none cancelled, has returned
\* an index drawn in its last round.
C16_Witness ==
    /\ pc = "idle"
    /\ last_call = "select_best_image"
    /\ images > 1
    /\ rounds >= 2
    /\ ~cancelled
    /\ last_event = "selected"
    /\ returned_index = current_batch_indexes[Len(current_batch_indexes)]
    /\ returned_index = images - 1

\* This step answers the batch shown, with a valid position or with "c".
AnsweredStep == pc = "shown" /\ last_event' \in {"selected", "cancelled"}

\* C17: for every batch_size >= 1, a selection on more than one image whose
\* batches are all answered exhausts the pool and returns after finitely
\* many rounds: every answered batch is followed by the return or by a batch
\* drawn from a pool that it leaves strictly smaller.
C17_AnsweredRoundShrinksPool ==
    [][(AnsweredStep /\ images > 1 /\ pc' = "shown")
           => Len(image_indexes') < Len(image_indexes)]_vars

\* The indexes from, from + 1, ..., to - 1 in increasing order.
Interval(from, to) == [i \in 1..(to - from) |-> from + i - 1]

\* How many indexes have left the pool.
DrawnCount == images - Len(image_indexes)

\* C18: in a selection on more than one image with batch_size >= 2, the
\* indexes are drawn from the pool in increasing order, each in exactly one
\* round: the pool always holds the indexes not yet drawn, in order, so that
\* it and the drawn indexes partition 0..N-1; every batch holds drawn
\* indexes only, each once; every round draws at least one index and its
\* batch holds, after the running best, exactly the indexes it drew, so that
\* only the running best appears in more than one batch; and at the return
\* every index has been drawn.
C18_DrawnOnceInOrder ==
    /\ []((last_call = "select_best_image" /\ images > 1 /\ batch_size >= 2)
            => /\ image_indexes = Interval(DrawnCount, images)
               /\ Elements(current_batch_indexes) \subseteq 0..(DrawnCount - 1)
               /\ Cardinality(Elements(current_batch_indexes)) = Len(current_batch_indexes)
               /\ pc = "idle" => image_indexes = <<>>)
    /\ [][(NewBatchStep /\ last_call' = "select_best_image" /\ images' > 1
              /\ batch_size' >= 2)
             => LET before == images' - Len(PoolBefore)
                    fresh  == SelectSeq(current_batch_indexes',
                                        LAMBDA x : x # best_image_index')
                IN  /\ DrawnCount' > before
                    /\ fresh = Interval(before, DrawnCount')
                    /\ \A x \in Elements(current_batch_indexes') :
                           x < before => x = best_image_index']_vars

\* C18's case: a selection of several rounds on several images, with a
\* running best carried from batch to batch, has returned.
C18_Witness ==
    /\ pc = "idle"
    /\ last_call = "select_best_image"
    /\ images >= 5
    /\ batch_size \in 2..3
    /\ rounds >= 3
    /\ image_indexes = <<>>
    /\ returned_index = 0

\* C19: in every reachable state the descriptions of newly_added, in
\* order, are a suffix of the descriptions of pipelines.
C19_NewlyAddedIsSuffix ==
    /\ Len(newly_added) <= Len(pipelines)
    /\ DescriptionsOf(newly_added) =
           SubSeq(DescriptionsOf(pipelines),
                  Len(pipelines) - Len(newly_added) + 1, Len(pipelines))

\* C19's case: after a search, two different descriptions have been
\* registered, so that newly_added is a proper, non-empty suffix.
C19_Witness ==
    /\ pc = "idle"
    /\ Len(newly_added) >= 2
    /\ Len(pipelines) > Len(newly_added)
    /\ newly_added[1].description # newly_added[2].description
    /\ pipelines[1].description # newly_added[1].description

\* This step is a call of get_best_preprocessor.
GetBestStep == pc = "idle" /\ last_call' = "get_best_preprocessor"

\* C20: get_best_preprocessor is idempotent: a call right after another
\* call returns what that one returned and changes nothing of pipelines,
\* newly_added and best_preprocessor; and no call changes pipelines or
\* newly_added.
C20_GetBestIdempotent ==
    [][GetBestStep
           => /\ pipelines' = pipelines
              /\ newly_added' = newly_added
              /\ last_call = "get_best_preprocessor"
                    => /\ returned_preprocessor' = returned_preprocessor
                       /\ UNCHANGED registry]_vars

\* C20's case: get_best_preprocessor is called with entries in newly_added
\* after an earlier call has already dropped the cached winner: it returns
\* None again and drops nothing.
C20_Witness ==
    /\ last_call = "get_best_preprocessor"
    /\ newly_added # <<>>
    /\ Len(pipelines) > Len(newly_added)
    /\ invalidated = NonePreprocessor
    /\ returned_preprocessor = NonePreprocessor
    /\ best_preprocessor = NonePreprocessor

====
